---- MODULE Spec2Model ----
(***************************************************************************)
(* Widget production line: two programs of the repository.                 *)
(*                                                                         *)
(*  - the job-queue program (src/unnamed/part_000,                         *)
(*    WidgetProductionConsumptionLine): a closed, pre-filled jobChannel,   *)
(*    a buffered widgetChannel, producer and consumer worker goroutines;   *)
(*  - the counter-driven program (src/main.go, widgetProductionLine):      *)
(*    unbuffered channels, a manager loop counting productions and         *)
(*    consumptions and handing out one broken/not-broken token at a time.  *)
(*                                                                         *)
(* A goroutine is a process with a program counter; every channel          *)
(* operation, select and close is one step.                                *)
(***************************************************************************)
EXTENDS Integers, Sequences, FiniteSets, TLC

\* Bounds of the model: the runs checked are those with
\* numWidgets + numProducers + numConsumers <= MaxSize (job-queue program)
\* and <= MaxSizeCD (counter-driven program).
MaxSize == 6
MaxSizeCD == 5

\* Bound of the model: a run of the counter-driven program is followed until
\* it has made MaxOverrun widgets more than numWidgets.
MaxOverrun == 1

VARIABLES
    \* the command line: -n, -p, -c, and the numKth argument of the line function
    numWidgets, numProducers, numConsumers, numKth,
    \* ---- job-queue program (src/unnamed/part_000) ----
    jobChannel,           \* buffered chan int, closed once racked: the slots left
    widgetChannel,        \* buffered chan Widget: the units in the buffer
    widgetClosed,         \* close(outWidgetChannel) has run
    quitChannel,          \* chan struct{}: "open" or "closed"
    brokenWidgetChannel,  \* chan struct{}: "open" or "closed"
    doneChannel,          \* chan struct{}: "open" or "closed"
    wg,                   \* the package-level WaitGroup's counter
    productionWaitGroup,  \* productionLine's WaitGroup counter
    consumptionWaitGroup, \* consumptionLine's WaitGroup counter
    coord,                \* position of WidgetProductionConsumptionLine
    prodLine,             \* position of the productionLine goroutine
    consLine,             \* position of the consumptionLine goroutine
    producerPc,           \* position of each producer worker goroutine
    producerJob,          \* the i each producer worker received last
    consumerPc,           \* position of each consumer worker goroutine
    consumerWidget,       \* the workingWidget each consumer worker received last
    claimed,              \* history: the slots received from jobChannel
    produced,             \* history: the units sent to widgetChannel
    taken,                \* history: the units received from widgetChannel
    evaluated,            \* history: the units passed to consume
    closes,               \* history: how often each close statement has run
    stdout,               \* history: "[execution stops]" printed or not
    panicked,             \* a goroutine panicked (close of a closed channel, ...)
    \* ---- counter-driven program (src/main.go) ----
    brokenWidgetConsumed, \* the flag a consumer sets, the manager reads
    closedChannels,       \* the unbuffered channels the manager has closed
    quitTokens,           \* the values buffered in quitChannel
    initPc,               \* position of the goroutine sending the first token
    manager,              \* position of the manager loop
    quitSent,             \* the manager's i in its quit loop
    productionCounter,
    consumptionCounter,
    workerPc,             \* position of each producer goroutine
    workerBroken,         \* the broken value each producer received last
    workerWidget,         \* the workingWidget of each producer
    eaterPc,              \* position of each consumer goroutine
    eaterWidget,          \* the widget each consumer received last
    widgetTable,          \* the widgets appended by the producers
    consumedTable,        \* history: the widgets passed to consume
    mainWg,               \* the package-level WaitGroup's counter
    mainPc,               \* position of main
    crashed               \* a goroutine panicked (send on a closed channel)

params == <<numWidgets, numProducers, numConsumers, numKth>>

jqvars == <<jobChannel, widgetChannel, widgetClosed, quitChannel,
            brokenWidgetChannel, doneChannel, wg, productionWaitGroup,
            consumptionWaitGroup, coord, prodLine, consLine, producerPc,
            producerJob, consumerPc, consumerWidget, claimed, produced, taken,
            evaluated, closes, stdout, panicked>>

cdvars == <<brokenWidgetConsumed, closedChannels, quitTokens, initPc, manager,
            quitSent, productionCounter, consumptionCounter, workerPc,
            workerBroken, workerWidget, eaterPc, eaterWidget, widgetTable,
            consumedTable, mainWg, mainPc, crashed>>

vars == <<params, jqvars, cdvars>>

Producers == 1..numProducers
Consumers == 1..numConsumers

\* The command lines checked: at least one producer and one consumer, and a
\* defect index from -1 (the default: none) to one past the last slot.
Configurations(size) ==
    {c \in [n : 0..size, p : 1..size, c : 1..size, k : -1..(size + 1)] :
        /\ c.n + c.p + c.c <= size
        /\ c.k <= c.n + 1}

-----------------------------------------------------------------------------
(* Job-queue program.                                                      *)

\* Producer.produce: the Widget made by producer p for slot i.  id and time
\* come from the random source and the clock; slot stands for the identity.
produce(p, i, broken) == [slot |-> i, source |-> p, broken |-> broken]

\* Mutant of IsBrokenSlot: "numKth <= i", every unit from the slot on is broken.
IsBrokenSlotFrom(i) == numKth <= i

\* Mutant of IsBrokenSlot: "numKth == i - 1", the unit after the slot is broken.
IsBrokenSlotAfter(i) == numKth = i - 1

\* "if (numKth == i)": the unit of slot i is made broken.
IsBrokenSlot(i) == numKth = i

\* "for i := 1; i <= numWidgets; i++ { jobChannel <- i }"
RackedJobs == [i \in 1..numWidgets |-> i]

\* Mutant of WaitsForBroken: "numKth >= 0", a defect index of 0 waits too.
WaitsForBrokenFromZero == numKth >= 0

\* "if (numKth > 0)": the coordinator waits for the broken-widget signal.
WaitsForBroken == numKth > 0

\* The flags parsed by main: -n, -p, -c, -k.
InitFlags(size) ==
    \E cfg \in Configurations(size) :
        /\ numWidgets = cfg.n
        /\ numProducers = cfg.p
        /\ numConsumers = cfg.c
        /\ numKth = cfg.k

\* The job-queue program after WidgetProductionConsumptionLine has racked the
\* jobs, closed jobChannel and started the two line goroutines.
InitJQ ==
    /\ jobChannel = RackedJobs
    /\ widgetChannel = <<>>
    /\ widgetClosed = FALSE
    /\ quitChannel = "open"
    /\ brokenWidgetChannel = "open"
    /\ doneChannel = "open"
    /\ wg = 2
    /\ productionWaitGroup = 0
    /\ consumptionWaitGroup = 0
    /\ coord = IF WaitsForBroken THEN "recv_broken" ELSE "wait"
    /\ prodLine = "start"
    /\ consLine = "start"
    /\ producerPc = [p \in Producers |-> "idle"]
    /\ producerJob = [p \in Producers |-> 0]
    /\ consumerPc = [c \in Consumers |-> "idle"]
    /\ consumerWidget = [c \in Consumers |-> produce(0, 0, FALSE)]
    /\ claimed = <<>>
    /\ produced = <<>>
    /\ taken = <<>>
    /\ evaluated = <<>>
    /\ closes = [ch \in {"brokenWidgetChannel", "doneChannel", "quitChannel",
                         "widgetChannel"} |-> 0]
    /\ stdout = <<>>
    /\ panicked = FALSE

\* close(ch) on a channel variable holding "open"/"closed": the new value.
\* Closing a closed channel panics.
CloseOf(ch) == "closed"

\* productionLine: productionWaitGroup.Add(len(producerTable)) and one worker
\* goroutine per producer.
ProductionLineStart ==
    /\ ~panicked
    /\ prodLine = "start"
    /\ productionWaitGroup' = numProducers
    /\ producerPc' = [p \in Producers |-> "range"]
    /\ prodLine' = "wait"
    /\ UNCHANGED <<params, cdvars, jobChannel, widgetChannel, widgetClosed, quitChannel,
                   brokenWidgetChannel, doneChannel, wg, consumptionWaitGroup,
                   coord, consLine, producerJob, consumerPc, consumerWidget,
                   claimed, produced, taken, evaluated, closes, stdout, panicked>>

\* Mutant of ProducerRange: the slot is read but stays at the head of jobChannel.
ProducerRangePeek(p) ==
    /\ ~panicked
    /\ producerPc[p] = "range"
    /\ Len(produced) < numWidgets
    /\ Len(claimed) < numWidgets + 1
    /\ producerJob' = [producerJob EXCEPT ![p] = Head(jobChannel)]
    /\ claimed' = Append(claimed, Head(jobChannel))
    /\ producerPc' = [producerPc EXCEPT ![p] = "select"]
    /\ UNCHANGED <<params, cdvars, jobChannel, productionWaitGroup,
                   widgetChannel, widgetClosed, quitChannel,
                   brokenWidgetChannel, doneChannel, wg, consumptionWaitGroup,
                   coord, prodLine, consLine, consumerPc, consumerWidget,
                   produced, taken, evaluated, closes, stdout, panicked>>

\* "for i := range jobChannel": the next slot, or the end of the loop (the
\* channel is closed and empty) and the deferred productionWaitGroup.Done().
ProducerRange(p) ==
    /\ ~panicked
    /\ producerPc[p] = "range"
    /\ IF jobChannel # <<>>
       THEN /\ producerJob' = [producerJob EXCEPT ![p] = Head(jobChannel)]
            /\ jobChannel' = Tail(jobChannel)
            /\ claimed' = Append(claimed, Head(jobChannel))
            /\ producerPc' = [producerPc EXCEPT ![p] = "select"]
            /\ UNCHANGED productionWaitGroup
       ELSE /\ producerPc' = [producerPc EXCEPT ![p] = "done"]
            /\ productionWaitGroup' = productionWaitGroup - 1
            /\ UNCHANGED <<producerJob, jobChannel, claimed>>
    /\ UNCHANGED <<params, cdvars, widgetChannel, widgetClosed, quitChannel,
                   brokenWidgetChannel, doneChannel, wg, consumptionWaitGroup,
                   coord, prodLine, consLine, consumerPc, consumerWidget,
                   produced, taken, evaluated, closes, stdout, panicked>>

\* Mutant of QuitReady: the quit case is never found ready.
QuitNeverReady == FALSE

\* "select { default: ...; case <-quitChannel: return }": the quit case is
\* taken when quitChannel is closed, the default case only when it is not.
QuitReady == quitChannel = "closed"

ProducerSelect(p) ==
    /\ ~panicked
    /\ producerPc[p] = "select"
    /\ IF QuitReady
       THEN /\ producerPc' = [producerPc EXCEPT ![p] = "done"]
            /\ productionWaitGroup' = productionWaitGroup - 1
       ELSE /\ producerPc' = [producerPc EXCEPT ![p] = "push"]
            /\ UNCHANGED productionWaitGroup
    /\ UNCHANGED <<params, cdvars, jobChannel, widgetChannel, widgetClosed, quitChannel,
                   brokenWidgetChannel, doneChannel, wg, consumptionWaitGroup,
                   coord, prodLine, consLine, producerJob, consumerPc,
                   consumerWidget, claimed, produced, taken, evaluated, closes,
                   stdout, panicked>>

\* Mutant of WidgetCapacity: the buffer is one unit short.
WidgetCapacityShort == IF numWidgets > 0 THEN numWidgets - 1 ELSE 0

\* "widgetChannel := make(chan widget, numWidgets)"
WidgetCapacity == numWidgets

\* "outWidgetChannel <- workingProducer.produce(numKth == i)": blocks while
\* the buffer (capacity WidgetCapacity) is full; a send on a closed channel
\* panics.
ProducerPush(p) ==
    /\ ~panicked
    /\ producerPc[p] = "push"
    /\ widgetClosed \/ Len(widgetChannel) < WidgetCapacity
    /\ IF widgetClosed
       THEN /\ panicked' = TRUE
            /\ UNCHANGED <<widgetChannel, produced, producerPc>>
       ELSE LET w == produce(p, producerJob[p], IsBrokenSlot(producerJob[p]))
            IN  /\ widgetChannel' = Append(widgetChannel, w)
                /\ produced' = Append(produced, w)
                /\ producerPc' = [producerPc EXCEPT ![p] = "range"]
                /\ UNCHANGED panicked
    /\ UNCHANGED <<params, cdvars, jobChannel, widgetClosed, quitChannel,
                   brokenWidgetChannel, doneChannel, wg, productionWaitGroup,
                   consumptionWaitGroup, coord, prodLine, consLine, producerJob,
                   consumerPc, consumerWidget, claimed, taken, evaluated,
                   closes, stdout>>

\* Mutant of ProductionLineExit: Wait returns as soon as one worker is done.
ProductionLineExitEarly ==
    /\ ~panicked
    /\ prodLine = "wait"
    /\ productionWaitGroup < numProducers
    /\ prodLine' = "done"
    /\ closes' = [closes EXCEPT !["widgetChannel"] = @ + 1]
    /\ widgetClosed' = TRUE
    /\ wg' = wg - 1
    /\ UNCHANGED <<params, cdvars, jobChannel, widgetChannel, quitChannel,
                   brokenWidgetChannel, doneChannel, productionWaitGroup,
                   consumptionWaitGroup, coord, consLine, producerPc,
                   producerJob, consumerPc, consumerWidget, claimed, produced,
                   taken, evaluated, stdout, panicked>>

\* productionWaitGroup.Wait() returns; the deferred close(outWidgetChannel)
\* and wg.Done() run.
ProductionLineExit ==
    /\ ~panicked
    /\ prodLine = "wait"
    /\ productionWaitGroup = 0
    /\ prodLine' = "done"
    /\ closes' = [closes EXCEPT !["widgetChannel"] = @ + 1]
    /\ IF widgetClosed
       THEN panicked' = TRUE /\ UNCHANGED <<widgetClosed, wg>>
       ELSE widgetClosed' = TRUE /\ wg' = wg - 1 /\ UNCHANGED panicked
    /\ UNCHANGED <<params, cdvars, jobChannel, widgetChannel, quitChannel,
                   brokenWidgetChannel, doneChannel, productionWaitGroup,
                   consumptionWaitGroup, coord, consLine, producerPc,
                   producerJob, consumerPc, consumerWidget, claimed, produced,
                   taken, evaluated, stdout>>

\* consumptionLine: doneChannel made, consumptionWaitGroup.Add(len(consumerTable))
\* and one worker goroutine per consumer.
ConsumptionLineStart ==
    /\ ~panicked
    /\ consLine = "start"
    /\ consumptionWaitGroup' = numConsumers
    /\ consumerPc' = [c \in Consumers |-> "range"]
    /\ consLine' = "wait"
    /\ UNCHANGED <<params, cdvars, jobChannel, widgetChannel, widgetClosed, quitChannel,
                   brokenWidgetChannel, doneChannel, wg, productionWaitGroup,
                   coord, prodLine, producerPc, producerJob, consumerWidget,
                   claimed, produced, taken, evaluated, closes, stdout, panicked>>

\* "for workingWidget := range inWidgetChannel": blocks while the buffer is
\* empty and the channel open; ends once it is closed and drained.
ConsumerRange(c) ==
    /\ ~panicked
    /\ consumerPc[c] = "range"
    /\ widgetChannel # <<>> \/ widgetClosed
    /\ IF widgetChannel # <<>>
       THEN /\ consumerWidget' = [consumerWidget EXCEPT ![c] = Head(widgetChannel)]
            /\ widgetChannel' = Tail(widgetChannel)
            /\ taken' = Append(taken, Head(widgetChannel))
            /\ consumerPc' = [consumerPc EXCEPT ![c] = "select"]
            /\ UNCHANGED consumptionWaitGroup
       ELSE /\ consumerPc' = [consumerPc EXCEPT ![c] = "done"]
            /\ consumptionWaitGroup' = consumptionWaitGroup - 1
            /\ UNCHANGED <<consumerWidget, widgetChannel, taken>>
    /\ UNCHANGED <<params, cdvars, jobChannel, widgetClosed, quitChannel,
                   brokenWidgetChannel, doneChannel, wg, productionWaitGroup,
                   coord, prodLine, consLine, producerPc, producerJob, claimed,
                   produced, evaluated, closes, stdout, panicked>>

\* Mutant of DoneReady: the select waits on quitChannel instead of doneChannel.
DoneReadyOnQuit == quitChannel = "closed"

\* "select { case <-doneChannel: return; default: ... }"
DoneReady == doneChannel = "closed"

ConsumerSelect(c) ==
    /\ ~panicked
    /\ consumerPc[c] = "select"
    /\ IF DoneReady
       THEN /\ consumerPc' = [consumerPc EXCEPT ![c] = "done"]
            /\ consumptionWaitGroup' = consumptionWaitGroup - 1
       ELSE /\ consumerPc' = [consumerPc EXCEPT ![c] = "consume"]
            /\ UNCHANGED consumptionWaitGroup
    /\ UNCHANGED <<params, cdvars, jobChannel, widgetChannel, widgetClosed, quitChannel,
                   brokenWidgetChannel, doneChannel, wg, productionWaitGroup,
                   coord, prodLine, consLine, producerPc, producerJob,
                   consumerWidget, claimed, produced, taken, evaluated, closes,
                   stdout, panicked>>

\* Consumer.consume: reports the widget and returns wid.broken.
consume(wid) == wid.broken

\* "if (workingConsumer.consume(workingWidget))"
ConsumerConsume(c) ==
    /\ ~panicked
    /\ consumerPc[c] = "consume"
    /\ evaluated' = Append(evaluated, consumerWidget[c])
    /\ consumerPc' = [consumerPc EXCEPT ![c] =
                        IF consume(consumerWidget[c]) THEN "close_broken"
                                                      ELSE "range"]
    /\ UNCHANGED <<params, cdvars, jobChannel, widgetChannel, widgetClosed, quitChannel,
                   brokenWidgetChannel, doneChannel, wg, productionWaitGroup,
                   consumptionWaitGroup, coord, prodLine, consLine, producerPc,
                   producerJob, consumerWidget, claimed, produced, taken,
                   closes, stdout, panicked>>

\* Mutant of ConsumerCloseBroken: the close of brokenWidgetChannel is left out.
ConsumerSkipCloseBroken(c) ==
    /\ ~panicked
    /\ consumerPc[c] = "close_broken"
    /\ consumerPc' = [consumerPc EXCEPT ![c] = "close_done"]
    /\ UNCHANGED <<params, cdvars, jobChannel, widgetChannel, widgetClosed,
                   quitChannel, brokenWidgetChannel, doneChannel, wg,
                   productionWaitGroup, consumptionWaitGroup, coord, prodLine,
                   consLine, producerPc, producerJob, consumerWidget, claimed,
                   produced, taken, evaluated, closes, stdout, panicked>>

\* "close(brokenWidgetChannel)"
ConsumerCloseBroken(c) ==
    /\ ~panicked
    /\ consumerPc[c] = "close_broken"
    /\ closes' = [closes EXCEPT !["brokenWidgetChannel"] = @ + 1]
    /\ IF brokenWidgetChannel = "closed"
       THEN panicked' = TRUE /\ UNCHANGED <<brokenWidgetChannel, consumerPc>>
       ELSE /\ brokenWidgetChannel' = CloseOf(brokenWidgetChannel)
            /\ consumerPc' = [consumerPc EXCEPT ![c] = "close_done"]
            /\ UNCHANGED panicked
    /\ UNCHANGED <<params, cdvars, jobChannel, widgetChannel, widgetClosed, quitChannel,
                   doneChannel, wg, productionWaitGroup, consumptionWaitGroup,
                   coord, prodLine, consLine, producerPc, producerJob,
                   consumerWidget, claimed, produced, taken, evaluated, stdout>>

\* "close(doneChannel); return" and the deferred consumptionWaitGroup.Done()
ConsumerCloseDone(c) ==
    /\ ~panicked
    /\ consumerPc[c] = "close_done"
    /\ closes' = [closes EXCEPT !["doneChannel"] = @ + 1]
    /\ IF doneChannel = "closed"
       THEN panicked' = TRUE
            /\ UNCHANGED <<doneChannel, consumerPc, consumptionWaitGroup>>
       ELSE /\ doneChannel' = CloseOf(doneChannel)
            /\ consumerPc' = [consumerPc EXCEPT ![c] = "done"]
            /\ consumptionWaitGroup' = consumptionWaitGroup - 1
            /\ UNCHANGED panicked
    /\ UNCHANGED <<params, cdvars, jobChannel, widgetChannel, widgetClosed, quitChannel,
                   brokenWidgetChannel, wg, productionWaitGroup, coord,
                   prodLine, consLine, producerPc, producerJob, consumerWidget,
                   claimed, produced, taken, evaluated, stdout>>

\* consumptionWaitGroup.Wait() returns; the deferred wg.Done() runs.
ConsumptionLineExit ==
    /\ ~panicked
    /\ consLine = "wait"
    /\ consumptionWaitGroup = 0
    /\ consLine' = "done"
    /\ wg' = wg - 1
    /\ UNCHANGED <<params, cdvars, jobChannel, widgetChannel, widgetClosed, quitChannel,
                   brokenWidgetChannel, doneChannel, productionWaitGroup,
                   consumptionWaitGroup, coord, prodLine, producerPc,
                   producerJob, consumerPc, consumerWidget, claimed, produced,
                   taken, evaluated, closes, stdout, panicked>>

\* Mutant of CoordinatorRecvBroken: the receive from brokenWidgetChannel is
\* left out, the coordinator reports and goes on at once.
CoordinatorSkipRecv ==
    /\ ~panicked
    /\ coord = "recv_broken"
    /\ stdout' = Append(stdout, "[execution stops]")
    /\ coord' = "close_quit"
    /\ UNCHANGED <<params, cdvars, jobChannel, widgetChannel, widgetClosed,
                   quitChannel, brokenWidgetChannel, doneChannel, wg,
                   productionWaitGroup, consumptionWaitGroup, prodLine,
                   consLine, producerPc, producerJob, consumerPc,
                   consumerWidget, claimed, produced, taken, evaluated, closes,
                   panicked>>

\* "<-brokenWidgetChannel; fmt.Println("[execution stops]")": the receive
\* returns once the channel is closed (nothing is ever sent on it).
CoordinatorRecvBroken ==
    /\ ~panicked
    /\ coord = "recv_broken"
    /\ brokenWidgetChannel = "closed"
    /\ stdout' = Append(stdout, "[execution stops]")
    /\ coord' = "close_quit"
    /\ UNCHANGED <<params, cdvars, jobChannel, widgetChannel, widgetClosed, quitChannel,
                   brokenWidgetChannel, doneChannel, wg, productionWaitGroup,
                   consumptionWaitGroup, prodLine, consLine, producerPc,
                   producerJob, consumerPc, consumerWidget, claimed, produced,
                   taken, evaluated, closes, panicked>>

\* "close(quitChannel)"
CoordinatorCloseQuit ==
    /\ ~panicked
    /\ coord = "close_quit"
    /\ closes' = [closes EXCEPT !["quitChannel"] = @ + 1]
    /\ quitChannel' = CloseOf(quitChannel)
    /\ coord' = "wait"
    /\ UNCHANGED <<params, cdvars, jobChannel, widgetChannel, widgetClosed,
                   brokenWidgetChannel, doneChannel, wg, productionWaitGroup,
                   consumptionWaitGroup, prodLine, consLine, producerPc,
                   producerJob, consumerPc, consumerWidget, claimed, produced,
                   taken, evaluated, stdout, panicked>>

\* "wg.Wait()" returns and WidgetProductionConsumptionLine with it.
CoordinatorWait ==
    /\ ~panicked
    /\ coord = "wait"
    /\ wg = 0
    /\ coord' = "done"
    /\ UNCHANGED <<params, cdvars, jobChannel, widgetChannel, widgetClosed, quitChannel,
                   brokenWidgetChannel, doneChannel, wg, productionWaitGroup,
                   consumptionWaitGroup, prodLine, consLine, producerPc,
                   producerJob, consumerPc, consumerWidget, claimed, produced,
                   taken, evaluated, closes, stdout, panicked>>

NextJQ ==
    \/ ProductionLineStart
    \/ \E p \in Producers : ProducerRange(p)
    \/ \E p \in Producers : ProducerSelect(p)
    \/ \E p \in Producers : ProducerPush(p)
    \/ ProductionLineExit
    \/ ConsumptionLineStart
    \/ \E c \in Consumers : ConsumerRange(c)
    \/ \E c \in Consumers : ConsumerSelect(c)
    \/ \E c \in Consumers : ConsumerConsume(c)
    \/ \E c \in Consumers : ConsumerCloseBroken(c)
    \/ \E c \in Consumers : ConsumerCloseDone(c)
    \/ ConsumptionLineExit
    \/ CoordinatorRecvBroken
    \/ CoordinatorCloseQuit
    \/ CoordinatorWait

-----------------------------------------------------------------------------
(* Counter-driven program.                                                 *)

\* Mutant of KthArg: main passes *numKth as it is.
KthArgRaw == numKth

\* main: "widgetProductionLine(..., *numKth - 1)"
KthArg == numKth - 1

\* produce: the widget made by producer p.  id and time come from the random
\* source and the clock; serial (its place in widgetTable) stands for them.
produceCD(p, broken, serial) == [serial |-> serial, source |-> p, broken |-> broken]

\* consume: reports the widget and returns wid.broken.
consumeCD(wid) == wid.broken

\* The zero value of widget: what a receive from the closed widgetChannel yields.
ZeroWidget == [serial |-> 0, source |-> 0, broken |-> FALSE]

\* "if numKth == 0 { brokenWidgetChannel <- true } else { ... <- false }"
InitToken == KthArg = 0

\* Mutant of NextToken: "productionCounter == numKth + 1", the token after the
\* right one is true.
NextTokenLate == productionCounter = KthArg + 1

\* "if productionCounter == numKth { brokenWidgetChannel <- true } else ..."
NextToken == productionCounter = KthArg

\* "brokenWidgetConsumed || (productionCounter == numWidgets &&
\*  consumptionCounter == numWidgets)"
StopCondition ==
    \/ brokenWidgetConsumed
    \/ (productionCounter = numWidgets /\ consumptionCounter = numWidgets)

\* "len(producerTable) + len(consumerTable)": quitChannel's capacity and the
\* number of quit values the manager sends.
QuitCount == numProducers + numConsumers

\* The manager's closes, in order.
CloseOrder == <<"productionCounterChannel", "consumptionCounterChannel",
                "brokenWidgetChannel", "widgetChannel">>

\* The counter-driven program after widgetProductionLine has made its channels
\* and started the token goroutine (past its wg.Add(1)) and every worker.
InitCD ==
    /\ brokenWidgetConsumed = FALSE
    /\ closedChannels = {}
    /\ quitTokens = 0
    /\ initPc = "send"
    /\ manager = "recv_prod"
    /\ quitSent = 0
    /\ productionCounter = 0
    /\ consumptionCounter = 0
    /\ workerPc = [p \in Producers |-> "select"]
    /\ workerBroken = [p \in Producers |-> FALSE]
    /\ workerWidget = [p \in Producers |-> ZeroWidget]
    /\ eaterPc = [c \in Consumers |-> "select"]
    /\ eaterWidget = [c \in Consumers |-> ZeroWidget]
    /\ widgetTable = <<>>
    /\ consumedTable = <<>>
    /\ mainWg = numProducers + numConsumers + 1
    /\ mainPc = "line"
    /\ crashed = FALSE

\* Producer select, "case <-quitChannel: wg.Done(); return"
WorkerQuit(p) ==
    /\ ~crashed
    /\ workerPc[p] = "select"
    /\ quitTokens > 0
    /\ quitTokens' = quitTokens - 1
    /\ mainWg' = mainWg - 1
    /\ workerPc' = [workerPc EXCEPT ![p] = "done"]
    /\ UNCHANGED <<params, jqvars, brokenWidgetConsumed, closedChannels, initPc,
                   manager, quitSent, productionCounter, consumptionCounter,
                   workerBroken, workerWidget, eaterPc, eaterWidget,
                   widgetTable, consumedTable, mainPc, crashed>>

\* Mutant of WorkerRecvInit: the token goroutine keeps offering its token after
\* a producer has taken it.
WorkerRecvInitAgain(p) ==
    /\ ~crashed
    /\ workerPc[p] = "select"
    /\ "brokenWidgetChannel" \notin closedChannels
    /\ initPc = "send"
    /\ initPc' = IF mainWg > numProducers + numConsumers THEN "send" ELSE "done"
    /\ mainWg' = mainWg - 1
    /\ workerBroken' = [workerBroken EXCEPT ![p] = InitToken]
    /\ workerPc' = [workerPc EXCEPT ![p] = "produce"]
    /\ UNCHANGED <<params, jqvars, brokenWidgetConsumed, closedChannels,
                   quitTokens, manager, quitSent, productionCounter,
                   consumptionCounter, workerWidget, eaterPc, eaterWidget,
                   widgetTable, consumedTable, mainPc, crashed>>

\* Producer select, "case broken := <-brokenWidgetChannel", meeting the send of
\* the token goroutine, which then runs its wg.Done().
WorkerRecvInit(p) ==
    /\ ~crashed
    /\ workerPc[p] = "select"
    /\ "brokenWidgetChannel" \notin closedChannels
    /\ initPc = "send"
    /\ initPc' = "done"
    /\ mainWg' = mainWg - 1
    /\ workerBroken' = [workerBroken EXCEPT ![p] = InitToken]
    /\ workerPc' = [workerPc EXCEPT ![p] = "produce"]
    /\ UNCHANGED <<params, jqvars, brokenWidgetConsumed, closedChannels,
                   quitTokens, manager, quitSent, productionCounter,
                   consumptionCounter, workerWidget, eaterPc, eaterWidget,
                   widgetTable, consumedTable, mainPc, crashed>>

\* Producer select, "case broken := <-brokenWidgetChannel", meeting the
\* manager's send at the end of its loop body.
WorkerRecvToken(p) ==
    /\ ~crashed
    /\ workerPc[p] = "select"
    /\ "brokenWidgetChannel" \notin closedChannels
    /\ manager = "send_broken"
    /\ manager' = "recv_prod"
    /\ workerBroken' = [workerBroken EXCEPT ![p] = NextToken]
    /\ workerPc' = [workerPc EXCEPT ![p] = "produce"]
    /\ UNCHANGED <<params, jqvars, brokenWidgetConsumed, closedChannels,
                   quitTokens, initPc, quitSent, productionCounter,
                   consumptionCounter, workerWidget, eaterPc, eaterWidget,
                   widgetTable, consumedTable, mainWg, mainPc, crashed>>

\* Producer select, "case broken := <-brokenWidgetChannel" on the closed
\* channel: the receive is ready and yields the zero value, false.
WorkerRecvClosed(p) ==
    /\ ~crashed
    /\ workerPc[p] = "select"
    /\ "brokenWidgetChannel" \in closedChannels
    /\ workerBroken' = [workerBroken EXCEPT ![p] = FALSE]
    /\ workerPc' = [workerPc EXCEPT ![p] = "produce"]
    /\ UNCHANGED <<params, jqvars, brokenWidgetConsumed, closedChannels,
                   quitTokens, initPc, manager, quitSent, productionCounter,
                   consumptionCounter, workerWidget, eaterPc, eaterWidget,
                   widgetTable, consumedTable, mainWg, mainPc, crashed>>

\* "workingWidget := produce(producerTable[j], broken);
\*  widgetTable = append(widgetTable, workingWidget)".  The run is followed up
\* to numWidgets + MaxOverrun widgets.  The append is one step: up to the manager's
\* stop decision the producers take turns (one token at a time), and the
\* appends that race after it add unbroken widgets whatever their outcome.
WorkerProduce(p) ==
    /\ ~crashed
    /\ workerPc[p] = "produce"
    /\ Len(widgetTable) < numWidgets + MaxOverrun
    /\ LET w == produceCD(p, workerBroken[p], Len(widgetTable) + 1)
       IN  /\ workerWidget' = [workerWidget EXCEPT ![p] = w]
           /\ widgetTable' = Append(widgetTable, w)
    /\ workerPc' = [workerPc EXCEPT ![p] = "send_count"]
    /\ UNCHANGED <<params, jqvars, brokenWidgetConsumed, closedChannels,
                   quitTokens, initPc, manager, quitSent, productionCounter,
                   consumptionCounter, workerBroken, eaterPc, eaterWidget,
                   consumedTable, mainWg, mainPc, crashed>>

\* "productionCounter += <-productionCounterChannel", meeting producer p's
\* "productionCounterChannel <- 1".
ManagerRecvProduction(p) ==
    /\ ~crashed
    /\ manager = "recv_prod"
    /\ workerPc[p] = "send_count"
    /\ "productionCounterChannel" \notin closedChannels
    /\ productionCounter' = productionCounter + 1
    /\ manager' = "recv_cons"
    /\ workerPc' = [workerPc EXCEPT ![p] = "send_widget"]
    /\ UNCHANGED <<params, jqvars, brokenWidgetConsumed, closedChannels,
                   quitTokens, initPc, quitSent, consumptionCounter,
                   workerBroken, workerWidget, eaterPc, eaterWidget,
                   widgetTable, consumedTable, mainWg, mainPc, crashed>>

\* The channel a producer at position pc sends on.
WorkerSendsOn(pc) ==
    IF pc = "send_count" THEN "productionCounterChannel"
    ELSE IF pc = "send_widget" THEN "widgetChannel"
    ELSE "none"

\* A producer's send on a channel the manager has closed panics.
WorkerSendClosed(p) ==
    /\ ~crashed
    /\ WorkerSendsOn(workerPc[p]) \in closedChannels
    /\ crashed' = TRUE
    /\ UNCHANGED <<params, jqvars, brokenWidgetConsumed, closedChannels,
                   quitTokens, initPc, manager, quitSent, productionCounter,
                   consumptionCounter, workerPc, workerBroken, workerWidget,
                   eaterPc, eaterWidget, widgetTable, consumedTable, mainWg,
                   mainPc>>

\* Consumer select, "case <-quitChannel: wg.Done(); return"
EaterQuit(c) ==
    /\ ~crashed
    /\ eaterPc[c] = "select"
    /\ quitTokens > 0
    /\ quitTokens' = quitTokens - 1
    /\ mainWg' = mainWg - 1
    /\ eaterPc' = [eaterPc EXCEPT ![c] = "done"]
    /\ UNCHANGED <<params, jqvars, brokenWidgetConsumed, closedChannels, initPc,
                   manager, quitSent, productionCounter, consumptionCounter,
                   workerPc, workerBroken, workerWidget, eaterWidget,
                   widgetTable, consumedTable, mainPc, crashed>>

\* Consumer select, "case widget := <-widgetChannel", meeting producer p's
\* "widgetChannel <- workingWidget".
EaterRecvWidget(c, p) ==
    /\ ~crashed
    /\ eaterPc[c] = "select"
    /\ workerPc[p] = "send_widget"
    /\ "widgetChannel" \notin closedChannels
    /\ eaterWidget' = [eaterWidget EXCEPT ![c] = workerWidget[p]]
    /\ eaterPc' = [eaterPc EXCEPT ![c] = "consume"]
    /\ workerPc' = [workerPc EXCEPT ![p] = "select"]
    /\ UNCHANGED <<params, jqvars, brokenWidgetConsumed, closedChannels,
                   quitTokens, initPc, manager, quitSent, productionCounter,
                   consumptionCounter, workerBroken, workerWidget, widgetTable,
                   consumedTable, mainWg, mainPc, crashed>>

\* Consumer select, "case widget := <-widgetChannel" on the closed channel:
\* the receive is ready and yields the zero widget.
EaterRecvClosed(c) ==
    /\ ~crashed
    /\ eaterPc[c] = "select"
    /\ "widgetChannel" \in closedChannels
    /\ eaterWidget' = [eaterWidget EXCEPT ![c] = ZeroWidget]
    /\ eaterPc' = [eaterPc EXCEPT ![c] = "consume"]
    /\ UNCHANGED <<params, jqvars, brokenWidgetConsumed, closedChannels,
                   quitTokens, initPc, manager, quitSent, productionCounter,
                   consumptionCounter, workerPc, workerBroken, workerWidget,
                   widgetTable, consumedTable, mainWg, mainPc, crashed>>

\* "if consume(consumerTable[k], widget) { brokenWidgetConsumed = true }"
EaterConsume(c) ==
    /\ ~crashed
    /\ eaterPc[c] = "consume"
    /\ consumedTable' = Append(consumedTable, eaterWidget[c])
    /\ brokenWidgetConsumed' = (brokenWidgetConsumed \/ consumeCD(eaterWidget[c]))
    /\ eaterPc' = [eaterPc EXCEPT ![c] = "send_count"]
    /\ UNCHANGED <<params, jqvars, closedChannels, quitTokens, initPc, manager,
                   quitSent, productionCounter, consumptionCounter, workerPc,
                   workerBroken, workerWidget, eaterWidget, widgetTable,
                   mainWg, mainPc, crashed>>

\* "consumptionCounter += <-consumptionCounterChannel", meeting consumer c's
\* "consumptionCounterChannel <- 1".
ManagerRecvConsumption(c) ==
    /\ ~crashed
    /\ manager = "recv_cons"
    /\ eaterPc[c] = "send_count"
    /\ "consumptionCounterChannel" \notin closedChannels
    /\ consumptionCounter' = consumptionCounter + 1
    /\ manager' = "check"
    /\ eaterPc' = [eaterPc EXCEPT ![c] = "select"]
    /\ UNCHANGED <<params, jqvars, brokenWidgetConsumed, closedChannels,
                   quitTokens, initPc, quitSent, productionCounter, workerPc,
                   workerBroken, workerWidget, eaterWidget, widgetTable,
                   consumedTable, mainWg, mainPc, crashed>>

\* A consumer's "consumptionCounterChannel <- 1" on the closed channel panics.
EaterSendClosed(c) ==
    /\ ~crashed
    /\ eaterPc[c] = "send_count"
    /\ "consumptionCounterChannel" \in closedChannels
    /\ crashed' = TRUE
    /\ UNCHANGED <<params, jqvars, brokenWidgetConsumed, closedChannels,
                   quitTokens, initPc, manager, quitSent, productionCounter,
                   consumptionCounter, workerPc, workerBroken, workerWidget,
                   eaterPc, eaterWidget, widgetTable, consumedTable, mainWg,
                   mainPc>>

\* "if brokenWidgetConsumed || (...) { ... break }", else on to the next token.
ManagerCheck ==
    /\ ~crashed
    /\ manager = "check"
    /\ manager' = IF StopCondition THEN "quit" ELSE "send_broken"
    /\ UNCHANGED <<params, jqvars, brokenWidgetConsumed, closedChannels,
                   quitTokens, initPc, quitSent, productionCounter,
                   consumptionCounter, workerPc, workerBroken, workerWidget,
                   eaterPc, eaterWidget, widgetTable, consumedTable, mainWg,
                   mainPc, crashed>>

\* "for i := 0; i < len(producerTable) + len(consumerTable); i++
\*  { quitChannel <- true }": one send; it blocks while the buffer is full.
ManagerSendQuit ==
    /\ ~crashed
    /\ manager = "quit"
    /\ quitSent < QuitCount
    /\ quitTokens < QuitCount
    /\ quitTokens' = quitTokens + 1
    /\ quitSent' = quitSent + 1
    /\ UNCHANGED <<params, jqvars, brokenWidgetConsumed, closedChannels, initPc,
                   manager, productionCounter, consumptionCounter, workerPc,
                   workerBroken, workerWidget, eaterPc, eaterWidget,
                   widgetTable, consumedTable, mainWg, mainPc, crashed>>

\* The quit loop ends: "[execution stops]" is printed and the closes begin.
ManagerQuitSent ==
    /\ ~crashed
    /\ manager = "quit"
    /\ quitSent = QuitCount
    /\ manager' = "close"
    /\ UNCHANGED <<params, jqvars, brokenWidgetConsumed, closedChannels,
                   quitTokens, initPc, quitSent, productionCounter,
                   consumptionCounter, workerPc, workerBroken, workerWidget,
                   eaterPc, eaterWidget, widgetTable, consumedTable, mainWg,
                   mainPc, crashed>>

\* One of "close(productionCounterChannel); close(consumptionCounterChannel);
\* close(brokenWidgetChannel); close(widgetChannel)", then "break" and the
\* return to main.
ManagerClose ==
    /\ ~crashed
    /\ manager = "close"
    /\ LET next == CloseOrder[Cardinality(closedChannels) + 1]
       IN  closedChannels' = closedChannels \cup {next}
    /\ manager' = IF Cardinality(closedChannels) + 1 = Len(CloseOrder)
                  THEN "returned" ELSE "close"
    /\ UNCHANGED <<params, jqvars, brokenWidgetConsumed, quitTokens, initPc,
                   quitSent, productionCounter, consumptionCounter, workerPc,
                   workerBroken, workerWidget, eaterPc, eaterWidget,
                   widgetTable, consumedTable, mainWg, mainPc, crashed>>

\* main: widgetProductionLine has returned and "wg.Wait()" returns.
MainWait ==
    /\ ~crashed
    /\ mainPc = "line"
    /\ manager = "returned"
    /\ mainWg = 0
    /\ mainPc' = "exit"
    /\ UNCHANGED <<params, jqvars, brokenWidgetConsumed, closedChannels,
                   quitTokens, initPc, manager, quitSent, productionCounter,
                   consumptionCounter, workerPc, workerBroken, workerWidget,
                   eaterPc, eaterWidget, widgetTable, consumedTable, mainWg,
                   crashed>>

NextCD ==
    \/ \E p \in Producers : WorkerQuit(p)
    \/ \E p \in Producers : WorkerRecvInit(p)
    \/ \E p \in Producers : WorkerRecvToken(p)
    \/ \E p \in Producers : WorkerRecvClosed(p)
    \/ \E p \in Producers : WorkerProduce(p)
    \/ \E p \in Producers : ManagerRecvProduction(p)
    \/ \E p \in Producers : WorkerSendClosed(p)
    \/ \E c \in Consumers : EaterQuit(c)
    \/ \E c \in Consumers : \E p \in Producers : EaterRecvWidget(c, p)
    \/ \E c \in Consumers : EaterRecvClosed(c)
    \/ \E c \in Consumers : EaterConsume(c)
    \/ \E c \in Consumers : ManagerRecvConsumption(c)
    \/ \E c \in Consumers : EaterSendClosed(c)
    \/ ManagerCheck
    \/ ManagerSendQuit
    \/ ManagerQuitSent
    \/ ManagerClose
    \/ MainWait

-----------------------------------------------------------------------------
(* Specifications: one per program; the other program's variables rest.    *)

Init(size) == InitFlags(size) /\ InitJQ /\ InitCD

SpecJQ == Init(MaxSize) /\ [][NextJQ]_vars

\* The Go scheduler runs a runnable goroutine: some enabled step is taken.
FairSpecJQ == SpecJQ /\ WF_vars(NextJQ)

SpecCD == Init(MaxSizeCD) /\ [][NextCD]_vars

FairSpecCD == SpecCD /\ WF_vars(NextCD)

-----------------------------------------------------------------------------
(* Properties of the job-queue program.                                    *)

\* The defect index names a slot.
InRange == numKth \in 1..numWidgets

\* The slots of the units of a history, and its broken units.
SlotsOf(seq) == {seq[i].slot : i \in 1..Len(seq)}
BrokenOf(seq) == {i \in 1..Len(seq) : seq[i].broken}

\* Every goroutine of the job-queue program has exited and wg.Wait returned.
AllExited ==
    /\ coord = "done"
    /\ prodLine = "done"
    /\ consLine = "done"
    /\ \A p \in Producers : producerPc[p] = "done"
    /\ \A c \in Consumers : consumerPc[c] = "done"

\* C1: with defectIndex <= 0 every fair run ends with wg.Wait returned,
\* exactly numWidgets units pushed, exactly numWidgets units evaluated and
\* none of them reported broken.
C1_NoDefectRunsToCompletion ==
    (numKth <= 0) ~> /\ AllExited
                     /\ Len(produced) = numWidgets
                     /\ Len(evaluated) = numWidgets
                     /\ BrokenOf(evaluated) = {}
                     /\ ~panicked

C1_Witness ==
    /\ numKth = -1
    /\ numWidgets = 3
    /\ coord = "done"
    /\ Len(evaluated) = 3

\* C2 (as claimed): with defectIndex > numWidgets no unit is broken and the run
\* ends by natural completion: it is never stuck short of the coordinator's
\* return.
C2_OutOfRangeCompletes ==
    (numKth > numWidgets) =>
        /\ BrokenOf(produced) = {}
        /\ (coord = "done" \/ ENABLED NextJQ)

\* C3: with 1 <= defectIndex <= numWidgets every fair run ends: the broken
\* unit has been produced and evaluated, quitChannel is closed, and every
\* worker and both lines have exited, so that wg.Wait has returned.
C3_DefectRunTerminates ==
    InRange ~> /\ AllExited
               /\ BrokenOf(produced) # {}
               /\ BrokenOf(evaluated) # {}
               /\ quitChannel = "closed"
               /\ ~panicked

C3_Witness ==
    /\ InRange
    /\ numProducers = 2
    /\ numConsumers = 2
    /\ AllExited
    /\ quitChannel = "closed"
    /\ Len(produced) < numWidgets

\* C4 (as claimed): with 1 <= defectIndex <= numWidgets, a run that has ended
\* has pushed at most numWidgets and at least defectIndex units.
C4_ProducedAtLeastDefectIndex ==
    (InRange /\ coord = "done") =>
        /\ Len(produced) <= numWidgets
        /\ Len(produced) >= numKth

\* C5: close(brokenWidgetChannel) and close(doneChannel) each run at most
\* once and never on a closed channel (no panic); with the defect index in
\* range each runs exactly once.
C5_SignalRaisedOnce ==
    /\ [](/\ closes["brokenWidgetChannel"] <= 1
          /\ closes["doneChannel"] <= 1
          /\ ~panicked)
    /\ (InRange ~> /\ closes["brokenWidgetChannel"] = 1
                   /\ closes["doneChannel"] = 1)

C5_Witness ==
    /\ numConsumers >= 2
    /\ closes["brokenWidgetChannel"] = 1
    /\ closes["doneChannel"] = 1
    /\ \E c \in Consumers : consumerPc[c] = "consume"

\* C6: at most one broken unit is ever produced, it is the unit of slot
\* numKth, none is produced when numKth is outside 1..numWidgets, and when it
\* is inside the broken unit is eventually produced.
C6_OneBrokenUnitAtDefectSlot ==
    /\ [](/\ Cardinality(BrokenOf(produced)) <= 1
          /\ \A i \in 1..Len(produced) :
                produced[i].broken <=> (produced[i].slot = numKth)
          /\ ~InRange => BrokenOf(produced) = {})
    /\ (InRange ~> BrokenOf(produced) # {})

C6_Witness ==
    /\ numKth = 2
    /\ numProducers = 2
    /\ Len(produced) = 3
    /\ produced[1].broken
    /\ produced[1].slot = 2

\* The entries of a history are pairwise different.
NoRepeats(seq) == \A i, j \in 1..Len(seq) : i # j => seq[i] # seq[j]

\* C7: no slot is received twice from jobChannel, no two producers hold the
\* same slot, no two units are pushed for one slot, and no unit is received
\* twice from widgetChannel, held by two consumers or evaluated twice.
C7_SlotsAndUnitsHandledOnce ==
    /\ NoRepeats(claimed)
    /\ \A p, q \in Producers :
          (/\ p # q
           /\ producerPc[p] \in {"select", "push"}
           /\ producerPc[q] \in {"select", "push"}) => producerJob[p] # producerJob[q]
    /\ NoRepeats([i \in 1..Len(produced) |-> produced[i].slot])
    /\ NoRepeats([i \in 1..Len(taken) |-> taken[i].slot])
    /\ NoRepeats([i \in 1..Len(evaluated) |-> evaluated[i].slot])
    /\ \A c, d \in Consumers :
          (/\ c # d
           /\ consumerPc[c] \in {"select", "consume"}
           /\ consumerPc[d] \in {"select", "consume"})
              => consumerWidget[c].slot # consumerWidget[d].slot

C7_Witness ==
    /\ numProducers = 2
    /\ numConsumers = 2
    /\ Len(claimed) = 2
    /\ producerPc[1] = "range"
    /\ producerPc[2] = "range"
    /\ consumerPc[1] = "consume"
    /\ consumerPc[2] = "consume"

\* C8 (as claimed): once the producer workers have exited, every slot that
\* was received from jobChannel has a unit pushed for it.
C8_ClaimedSlotsProduced ==
    (\A p \in Producers : producerPc[p] = "done") =>
        SlotsOf([i \in 1..Len(claimed) |-> [slot |-> claimed[i]]]) \subseteq SlotsOf(produced)

-----------------------------------------------------------------------------
(* Properties of the counter-driven program.                               *)

\* The manager has seen its stop condition.
Stopping == manager \in {"quit", "close", "returned"}

\* C9 (as claimed): once the manager has seen its stop condition, no worker
\* enters its produce or consume branch again and none panics on a send.
C9_CleanQuit ==
    Stopping =>
        /\ ~crashed
        /\ \A p \in Producers : workerPc[p] \in {"select", "done"}
        /\ \A c \in Consumers : eaterPc[c] \in {"select", "done"}

\* C10 (as claimed): with numWidgets = 0 nothing is produced and nothing
\* consumed.
C10_ZeroUnitsNoWork ==
    (numWidgets = 0) => (widgetTable = <<>> /\ consumedTable = <<>>)


\* The -k flag names none of the widgets 1..numWidgets.
NoDefect == numKth <= 0 \/ numKth > numWidgets

\* C11: with numWidgets >= 1 and the -k flag <= 0 or > numWidgets, the manager
\* decides to stop exactly when productionCounter = consumptionCounter =
\* numWidgets (not before, and it does get there), and no widget made up to
\* then is broken.
C11_NoDefectStopsAtTotal ==
    /\ []((numWidgets >= 1 /\ NoDefect) =>
            /\ (manager = "check" =>
                  (StopCondition <=> (/\ productionCounter = numWidgets
                                      /\ consumptionCounter = numWidgets)))
            /\ (Stopping => (/\ productionCounter = numWidgets
                             /\ consumptionCounter = numWidgets))
            /\ (~Stopping => productionCounter <= numWidgets)
            /\ \A i \in 1..Len(widgetTable) : ~widgetTable[i].broken)
    /\ ((numWidgets >= 1 /\ NoDefect) ~>
            (Stopping /\ productionCounter = numWidgets
                      /\ consumptionCounter = numWidgets))

C11_Witness ==
    /\ numWidgets = 2
    /\ numKth = 3
    /\ numProducers = 2
    /\ manager = "quit"
    /\ Len(widgetTable) = 2
    /\ widgetTable[1].source # widgetTable[2].source


-----------------------------------------------------------------------------
(* Further properties of the job-queue program.                            *)

\* C12: close(outWidgetChannel) runs at most once, and in the end once; when
\* it has run every producer worker has exited; no send meets the closed
\* channel (no panic); every unit pushed is in the buffer or was received;
\* and a consumer's range loop ends only on the closed and drained channel.
C12_WidgetChannelClosedAfterProducers ==
    /\ [](/\ closes["widgetChannel"] <= 1
          /\ (widgetClosed <=> closes["widgetChannel"] = 1)
          /\ (widgetClosed => \A p \in Producers : producerPc[p] = "done")
          /\ ~panicked
          /\ produced = taken \o widgetChannel)
    /\ [][\A c \in Consumers :
            (consumerPc[c] = "range" /\ consumerPc'[c] = "done")
                => (widgetClosed /\ widgetChannel = <<>>)]_vars
    /\ <>(closes["widgetChannel"] = 1)

C12_Witness ==
    /\ widgetClosed
    /\ Len(widgetChannel) = 2
    /\ numProducers = 2
    /\ \E c \in Consumers : consumerPc[c] = "range"


\* C13 (as claimed): once brokenWidgetChannel is closed no further unit is
\* evaluated.
C13_NoEvaluationAfterSignal ==
    [][brokenWidgetChannel = "closed" => evaluated' = evaluated]_vars

\* C13 (amended): once doneChannel is closed, a consumer that runs its select
\* returns without evaluating its unit; only a consumer already past its
\* select evaluates the unit it holds, so no consumer enters the consume
\* branch after the close.
C13_NoConsumeBranchAfterDone ==
    [][doneChannel = "closed" =>
          \A c \in Consumers :
             /\ (consumerPc'[c] = "consume" => consumerPc[c] = "consume")
             /\ (consumerPc[c] = "select" /\ consumerPc'[c] # "select")
                   => (consumerPc'[c] = "done" /\ evaluated' = evaluated)]_vars

\* With doneChannel closed, a consumer has returned at its select without
\* evaluating the unit it received.
C13_Witness ==
    /\ doneChannel = "closed"
    /\ numConsumers = 2
    /\ \E c \in Consumers :
          /\ consumerPc[c] = "done"
          /\ consumerWidget[c].slot \in SlotsOf(taken)
          /\ consumerWidget[c].slot \notin SlotsOf(evaluated)


\* The producers that have chosen the default branch and not yet pushed.
Committed == {p \in Producers : producerPc[p] = "push"}

\* C14: once quitChannel is closed no producer enters the default (produce)
\* branch: a producer that runs its select returns, and the only pushes left
\* are those of producers already committed to one, each pushing once, so at
\* most numProducers units follow the close.
C14_AtMostOnePushAfterQuit ==
    [][quitChannel = "closed" =>
          /\ \A p \in Producers :
                /\ (producerPc'[p] = "push" => producerPc[p] = "push")
                /\ (producerPc[p] = "select" /\ producerPc'[p] # "select")
                      => (producerPc'[p] = "done" /\ produced' = produced)
          /\ Len(produced') + Cardinality(Committed')
                <= Len(produced) + Cardinality(Committed)
          /\ Cardinality(Committed) <= numProducers]_vars

\* With quitChannel closed, one producer is committed to a push and another
\* has returned at its select, leaving its slot without a unit.
C14_Witness ==
    /\ quitChannel = "closed"
    /\ \E p, q \in Producers :
          /\ producerPc[p] = "push"
          /\ producerPc[q] = "done"
          /\ producerJob[q] \in 1..numWidgets
          /\ producerJob[q] \notin SlotsOf(produced)


\* The slots a producer holds between its receive and its push.
HeldSlots == {producerJob[p] : p \in {q \in Producers : producerPc[q] \in {"select", "push"}}}

\* C15: "[execution stops]" is printed and quitChannel closed only after a
\* consumer has evaluated a broken unit and closed brokenWidgetChannel, the
\* report coming first; with numKth <= 0 neither ever happens and no producer
\* leaves through the quit case (every slot received is pushed or still held).
C15_QuitOnlyAfterBrokenSignal ==
    /\ (stdout # <<>> \/ quitChannel = "closed" \/ closes["quitChannel"] > 0) =>
          /\ BrokenOf(evaluated) # {}
          /\ brokenWidgetChannel = "closed"
          /\ stdout = <<"[execution stops]">>
          /\ closes["quitChannel"] <= 1
    /\ (numKth <= 0) =>
          /\ quitChannel = "open"
          /\ stdout = <<>>
          /\ SlotsOf([i \in 1..Len(claimed) |-> [slot |-> claimed[i]]])
                \subseteq (SlotsOf(produced) \cup HeldSlots)

C15_Witness ==
    /\ quitChannel = "closed"
    /\ stdout = <<"[execution stops]">>
    /\ numConsumers = 2
    /\ \E c \in Consumers : consumerPc[c] = "close_done"


-----------------------------------------------------------------------------
(* Further properties of the counter-driven program.                       *)

\* C16: with numWidgets >= 1 and the -k flag in 1..numWidgets, the widgets
\* made broken are exactly the numKth-th of widgetTable (the order of
\* production); the manager's stop decision finds productionCounter =
\* consumptionCounter = numKth; and before it no more than numKth widgets
\* have been made.
C16_KthProducedIsBroken ==
    (numWidgets >= 1 /\ InRange) =>
        /\ \A i \in 1..Len(widgetTable) : widgetTable[i].broken <=> (i = numKth)
        /\ (~Stopping => \A i \in 1..Len(widgetTable) : widgetTable[i].serial = i)
        /\ (Stopping => (/\ productionCounter = numKth
                         /\ consumptionCounter = numKth
                         /\ brokenWidgetConsumed))
        /\ (manager = "check" => (StopCondition <=> productionCounter = numKth))
        /\ (~Stopping => Len(widgetTable) <= numKth)

C16_Witness ==
    /\ numWidgets = 3
    /\ numKth = 2
    /\ manager = "quit"
    /\ Len(widgetTable) = 2
    /\ widgetTable[2].broken

\* Tokens that are offered or held: the token goroutine's, the manager's, and
\* those of producers between the receive and the append.
TokensOutstanding ==
    (IF initPc = "send" THEN 1 ELSE 0)
    + (IF manager = "send_broken" THEN 1 ELSE 0)
    + Cardinality({p \in Producers : workerPc[p] = "produce"})

\* Units between their append to widgetTable and the manager's receive of the
\* consumption count.
UnitsInFlight ==
    Cardinality({p \in Producers : workerPc[p] \in {"send_count", "send_widget"}})
    + Cardinality({c \in Consumers : eaterPc[c] \in {"consume", "send_count"}})

\* Producers inside the produce branch of the select.
InProduceBranch ==
    {p \in Producers : workerPc[p] \in {"produce", "send_count", "send_widget"}}

\* C17: until the manager broadcasts quit the counter-driven pipeline runs in
\* lockstep: at most one token is outstanding, at most one unit is in flight,
\* produced minus consumed is 0 or 1, at most one producer is inside its
\* produce branch, and the two counters are equal whenever the manager
\* evaluates its stop condition.
C17_Lockstep ==
    ~Stopping =>
        /\ TokensOutstanding <= 1
        /\ UnitsInFlight <= 1
        /\ TokensOutstanding + UnitsInFlight
               + (IF manager = "check" THEN 1 ELSE 0) = 1
        /\ Len(widgetTable) - Len(consumedTable) \in {0, 1}
        /\ Len(widgetTable) - consumptionCounter \in {0, 1}
        /\ productionCounter - consumptionCounter \in {0, 1}
        /\ Cardinality(InProduceBranch) <= 1
        /\ (manager = "check" => productionCounter = consumptionCounter)
        /\ ~crashed

C17_Witness ==
    /\ ~Stopping
    /\ numProducers = 2
    /\ Len(widgetTable) = 2
    /\ widgetTable[1].source # widgetTable[2].source
    /\ Len(consumedTable) = 1
    /\ \E p \in Producers : workerPc[p] = "send_widget"
    /\ productionCounter = 2
    /\ consumptionCounter = 1

\* C18: the widget channel never holds more than its capacity of numWidgets
\* units and a producer that is about to push always finds room, so no worker
\* is ever held at its select, its push, its evaluation or its closes: a
\* worker can wait only at the receive that heads its range loop.
C18_PushNeverBlocks ==
    /\ Len(widgetChannel) <= WidgetCapacity
    /\ Len(produced) + Cardinality(Committed) <= numWidgets
    /\ ~panicked
    /\ \A p \in Producers :
          /\ (producerPc[p] = "push" =>
                 /\ ~widgetClosed
                 /\ Len(widgetChannel) < WidgetCapacity
                 /\ ENABLED ProducerPush(p))
          /\ (producerPc[p] = "select" => ENABLED ProducerSelect(p))
    /\ \A c \in Consumers :
          /\ (consumerPc[c] = "select" => ENABLED ConsumerSelect(c))
          /\ (consumerPc[c] = "consume" => ENABLED ConsumerConsume(c))
          /\ (consumerPc[c] = "close_broken" => ENABLED ConsumerCloseBroken(c))
          /\ (consumerPc[c] = "close_done" => ENABLED ConsumerCloseDone(c))

C18_Witness ==
    /\ numWidgets = 2
    /\ Len(widgetChannel) = WidgetCapacity - 1
    /\ taken = <<>>
    /\ \E p \in Producers : producerPc[p] = "push"

====
